---- MODULE Spec2Model ----
(***************************************************************************)
(* A model of src/main.py, the GDELT search dashboard: the moving average  *)
(* (calculate_moving_average), the chart builder (generate_timeline_chart),*)
(* the article and timeline retrieval (generate_artical_data,              *)
(* process_timeline_data), the filter construction and the store / display *)
(* logic of the Streamlit script.                                          *)
(*                                                                         *)
(* Conventions.                                                            *)
(*  - A Python str is a sequence of tokens: each separator character       *)
(*    (":", ",", " ") is a token of its own, and any other token stands    *)
(*    for a run of characters that holds no separator.                     *)
(*  - A DataFrame is a sequence of rows; a row is a function from column   *)
(*    names to cell values.  An empty DataFrame is << >>.                  *)
(*  - A Python dict is a sequence of <<key, value>> pairs with distinct    *)
(*    keys, in insertion order.                                            *)
(*  - Metric values are integers; a rolling mean is kept exact as the      *)
(*    fraction num / den, and pandas' NaN is the value NaN below.          *)
(*  - Sequences are 1-based here and 0-based in Python: position i of the  *)
(*    model is index i - 1 of the code.                                    *)
(***************************************************************************)
EXTENDS Integers, Sequences, FiniteSets, TLC

VARIABLES
    \* ---- the Streamlit session (specification Spec) ----
    keywords,          \* the three keyword text inputs (main.py:86-88)
    tab,               \* the "Select a view" selectbox (main.py:138)
    articles,          \* st.session_state.articles
    raw_data,          \* st.session_state.raw_data
    smoothed_data,     \* st.session_state.smoothed_data
    written_by,        \* for each store part, the number of the search that assigned it
    search_no,         \* how many times the Search button has been pressed
    article_results,   \* what gd.article_search answers, per keyword, in the last search
    timeline_results,  \* what gd.timeline_search answers, per (api, keyword), in the last search
    fetch_log,         \* the calls to gd made by the last script run, in order (<< >> for a run without the button)
    screen,            \* what the last script run put on the page
    \* ---- one timeline through lines 68-74 (specification SpecMA) ----
    ma_timeline,       \* the fetched table
    ma_type,           \* the timeline type it was fetched for
    ma_raw,            \* raw_data[key] after the step
    ma_smoothed,       \* smoothed_data[key] after the step
    ma_pc,
    \* ---- the domain / country text fields (specification SpecFilter) ----
    field_text,        \* the text of the field
    field_name,        \* "domain", "country", or "" before the handler ran
    field_value        \* the value handed to Filters

sessionVars == <<keywords, tab, articles, raw_data, smoothed_data, written_by,
                 search_no, article_results, timeline_results, fetch_log, screen>>
maVars == <<ma_timeline, ma_type, ma_raw, ma_smoothed, ma_pc>>
filterVars == <<field_text, field_name, field_value>>
vars == <<sessionVars, maVars, filterVars>>

-----------------------------------------------------------------------------
(* Python strings                                                          *)

Str1(c) == <<c>>

\* the positions of s that hold the separator c
Positions(s, c) == {i \in 1..Len(s) : s[i] = c}

\* str.split(sep) for a one-character separator
RECURSIVE str_split(_, _)
str_split(s, sep) ==
    IF Positions(s, sep) = {}
    THEN <<s>>
    ELSE LET i == CHOOSE p \in Positions(s, sep) : \A q \in Positions(s, sep) : p <= q
         IN  <<SubSeq(s, 1, i - 1)>> \o str_split(SubSeq(s, i + 1, Len(s)), sep)

Whitespace == {" "}

\* str.strip(): drops leading and trailing whitespace
RECURSIVE str_lstrip(_)
str_lstrip(s) ==
    IF s # <<>> /\ Head(s) \in Whitespace THEN str_lstrip(Tail(s)) ELSE s

RECURSIVE str_rstrip(_)
str_rstrip(s) ==
    IF s # <<>> /\ s[Len(s)] \in Whitespace
    THEN str_rstrip(SubSeq(s, 1, Len(s) - 1))
    ELSE s

str_strip(s) == str_rstrip(str_lstrip(s))

-----------------------------------------------------------------------------
(* Python dicts                                                            *)

DictKeys(d) == [i \in 1..Len(d) |-> d[i][1]]
DictHas(d, k) == \E i \in 1..Len(d) : d[i][1] = k
DictGet(d, k) == d[CHOOSE i \in 1..Len(d) : d[i][1] = k][2]
\* d[k] = v: replaces the value of an existing key in place, else appends
DictSet(d, k, v) ==
    IF DictHas(d, k)
    THEN [i \in 1..Len(d) |-> IF d[i][1] = k THEN <<k, v>> ELSE d[i]]
    ELSE Append(d, <<k, v>>)

-----------------------------------------------------------------------------
(* DataFrames                                                              *)

NaN == [nan |-> TRUE]
Mean(total, count) == [nan |-> FALSE, num |-> total, den |-> count]

Column(data, c) == [i \in 1..Len(data) |-> data[i][c]]
HasColumn(data, c) == \A i \in 1..Len(data) : c \in DOMAIN data[i]

RECURSIVE SumSeq(_)
SumSeq(s) == IF s = <<>> THEN 0 ELSE Head(s) + SumSeq(Tail(s))

\* DataFrame.sort_values(c): the rows in ascending order of column c.
\* pandas' default quicksort leaves the order of rows with equal c open; the
\* fetched tables of this model hold distinct timestamps, so the order is
\* determined.  (Insertion into a sorted prefix.)
RECURSIVE InsertRow(_, _, _)
InsertRow(sorted, row, c) ==
    IF sorted = <<>> THEN <<row>>
    ELSE IF sorted[Len(sorted)][c] <= row[c] THEN Append(sorted, row)
    ELSE Append(InsertRow(SubSeq(sorted, 1, Len(sorted) - 1), row, c), sorted[Len(sorted)])

RECURSIVE sort_values(_, _)
sort_values(data, c) ==
    IF data = <<>> THEN <<>>
    ELSE InsertRow(sort_values(SubSeq(data, 1, Len(data) - 1), c), data[Len(data)], c)

\* Series.rolling(window=window, center=True).mean() of pandas: a fixed window
\* of `window` values whose last position is i + (window - 1) \div 2; fewer than
\* min_periods (= window) values in range give NaN.
RollingCenterMean(x, window) ==
    LET offset == (window - 1) \div 2
    IN  [i \in 1..Len(x) |->
            LET last  == i + offset
                first == last - window + 1
                lo    == IF first < 1 THEN 1 ELSE first
                hi    == IF last > Len(x) THEN Len(x) ELSE last
            IN  IF hi - lo + 1 < window
                THEN NaN
                ELSE Mean(SumSeq(SubSeq(x, lo, hi)), window)]

window_size == 30

\* Mutant: center=False, the window ends at the labelled position.
calculate_moving_average_trailing(data, col_name) ==
    LET x      == Column(data, col_name)
        rolled == [i \in 1..Len(x) |->
                      IF i < window_size THEN NaN
                      ELSE Mean(SumSeq(SubSeq(x, i - window_size + 1, i)), window_size)]
    IN  [i \in 1..Len(data) |-> [data[i] EXCEPT ![col_name] = rolled[i]]]

\* Mutant: the rows whose mean is undefined are dropped (a trailing .dropna()).
calculate_moving_average_dropna(data, col_name) ==
    LET rolled == RollingCenterMean(Column(data, col_name), window_size)
        whole  == [i \in 1..Len(data) |-> [data[i] EXCEPT ![col_name] = rolled[i]]]
    IN  SelectSeq(whole, LAMBDA row : row[col_name] # NaN)

\* main.py:10-27.  data.copy() is a deep copy: the result is a new table and
\* `data` is left as it was; only column col_name is replaced.
calculate_moving_average(data, col_name) ==
    LET rolled == RollingCenterMean(Column(data, col_name), window_size)
    IN  [i \in 1..Len(data) |-> [data[i] EXCEPT ![col_name] = rolled[i]]]

-----------------------------------------------------------------------------
(* Timeline types (main.py:96-98)                                          *)

timelinetone   == <<"timelinetone">>
timelinevol    == <<"timelinevol">>
timelinevolraw == <<"timelinevolraw">>

timeline_types ==
    << [search_api |-> timelinetone,   title |-> "Average Tone",             col_name |-> "Average Tone"],
       [search_api |-> timelinevol,    title |-> "Volume As % Of Total",     col_name |-> "Volume Intensity"],
       [search_api |-> timelinevolraw, title |-> "Volume Of Total Articles", col_name |-> "Article Count"] >>

TypeOf(api) == timeline_types[CHOOSE i \in 1..Len(timeline_types) : timeline_types[i].search_api = api]

\* f"{timeline_type['search_api']}:{keyword}"  (main.py:71)
CompositeKey(api, keyword) == api \o Str1(":") \o keyword

-----------------------------------------------------------------------------
(* generate_timeline_chart (main.py:29-40)                                 *)

RECURSIVE ChartTraces(_, _)
ChartTraces(items, timeline_type) ==
    IF items = <<>> THEN <<>>
    ELSE LET composite_key == Head(items)[1]
             timeline_data == Head(items)[2]
             parts         == str_split(composite_key, ":")
             rest          == ChartTraces(Tail(items), timeline_type)
         IN  IF parts[1] = timeline_type.search_api
             THEN << [x    |-> Column(timeline_data, "datetime"),
                      y    |-> Column(timeline_data, timeline_type.col_name),
                      name |-> parts[2]] >> \o rest
             ELSE rest

generate_timeline_chart(timeline_data_dict, timeline_type) ==
    [traces      |-> ChartTraces(timeline_data_dict, timeline_type),
     title       |-> timeline_type.title,
     yaxis_title |-> timeline_type.col_name]

-----------------------------------------------------------------------------
(* The GDELT client gd (gdeltdoc, an external service): what a call        *)
(* answers is chosen by the environment; the client is the record         *)
(* gd = [articles |-> answer per keyword, timelines |-> answer per (api,   *)
(* keyword)], which the session keeps in article_results and               *)
(* timeline_results.                                                       *)

\* the metric value the service reports at time t (any integers would do;
\* these differ between the two ends of a 30-point window)
MetricValue(seed, t) == (t * t + seed * t) % 11

TimelineRow(timeline_type, seed, t) ==
    LET base == ("datetime" :> t) @@ (timeline_type.col_name :> MetricValue(seed, t))
    IN  IF timeline_type.search_api = timelinevolraw
        THEN base @@ ("All Articles" :> 100 + t)
        ELSE base

\* a table of n points at times 1..n, delivered in the given row order
TimelineTable(timeline_type, n, seed, order) ==
    [i \in 1..n |->
        TimelineRow(timeline_type, seed,
                    CASE order = "asc"  -> i
                      [] order = "desc" -> n + 1 - i
                      [] order = "rot"  -> (i % n) + 1)]

\* a table that lacks the metric column of its timeline type
BadTimelineTable(n) == [i \in 1..n |-> ("datetime" :> i) @@ ("value" :> 0)]

SeriesLen == 3

Raises == [raises |-> TRUE, table |-> <<>>]
Returns(t) == [raises |-> FALSE, table |-> t]

\* gd.timeline_search(api, f), for the client gd = [articles, timelines]
timeline_search(gd, api, f) ==
    LET answer == gd.timelines[<<api, f.keyword>>]
    IN  CASE answer = "error"    -> Raises
          [] answer = "empty"    -> Returns(<<>>)
          [] answer = "data"     -> Returns(TimelineTable(TypeOf(api), SeriesLen, Len(f.keyword), "desc"))
          [] answer = "badtable" -> Returns(BadTimelineTable(SeriesLen))

\* seendate cells: the fields of a "%Y%m%dT%H%M%SZ" string
Seendate(y, mo, d, h, mi, sec) ==
    [year |-> y, month |-> mo, day |-> d, hour |-> h, minute |-> mi, second |-> sec,
     literals |-> <<"T", "Z">>]

ArticleRow(keyword, n, seendate) ==
    [url |-> <<"https://", keyword, n>>, title |-> <<"title", n>>, seendate |-> seendate,
     domain |-> "bbc.co.uk", language |-> "English", sourcecountry |-> "United Kingdom",
     socialimage |-> ""]

GoodArticles(keyword) ==
    << ArticleRow(keyword, 1, Seendate(2020, 5, 10, 15, 30, 0)),
       ArticleRow(keyword, 2, Seendate(2020, 12, 31, 23, 59, 59)) >>

\* the second row's seendate does not match the pattern (month 13)
BadArticles(keyword) ==
    << ArticleRow(keyword, 1, Seendate(2020, 5, 10, 15, 30, 0)),
       ArticleRow(keyword, 2, Seendate(2020, 13, 1, 0, 0, 0)) >>

\* gd.article_search(f)
article_search(gd, f) ==
    LET answer == gd.articles[f.keyword]
    IN  CASE answer = "error"   -> Raises
          [] answer = "empty"   -> Returns(<<>>)
          [] answer = "rows"    -> Returns(GoodArticles(f.keyword))
          [] answer = "badrows" -> Returns(BadArticles(f.keyword))

-----------------------------------------------------------------------------
(* generate_artical_data (main.py:42-51)                                   *)

MonthAbbr == <<"Jan", "Feb", "Mar", "Apr", "May", "Jun", "Jul", "Aug", "Sep", "Oct", "Nov", "Dec">>

DaysIn(year, month) ==
    IF month = 2
    THEN (IF (year % 4 = 0 /\ year % 100 # 0) \/ year % 400 = 0 THEN 29 ELSE 28)
    ELSE IF month \in {4, 6, 9, 11} THEN 30 ELSE 31

\* datetime.strptime(x, '%Y%m%dT%H%M%SZ') succeeds
MatchesPattern(x) ==
    /\ x.literals = <<"T", "Z">>
    /\ x.year \in 1..9999
    /\ x.month \in 1..12
    /\ x.day \in 1..DaysIn(x.year, x.month)
    /\ x.hour \in 0..23
    /\ x.minute \in 0..59
    /\ x.second \in 0..61

\* .strftime('%b %d, %Y %H:%M'): the seconds are dropped
FormatSeendate(x) == <<MonthAbbr[x.month], x.day, x.year, x.hour, x.minute>>

ArticleColumns == {"keyword", "url", "title", "seendate", "domain", "language", "sourcecountry"}

\* lines 47-49 on one fetched table
NormalizeArticles(table, keyword) ==
    [i \in 1..Len(table) |->
        [c \in ArticleColumns |->
            CASE c = "keyword"  -> keyword
              [] c = "seendate" -> FormatSeendate(table[i].seendate)
              [] OTHER          -> table[i][c]]]

\* Mutant: a table with a malformed seendate is skipped instead of raising.
RECURSIVE ArticleLoopSkipMalformed(_, _, _)
ArticleLoopSkipMalformed(gd, items, acc) ==
    IF items = <<>> \/ acc.raised THEN acc
    ELSE LET keyword == Head(items)[1]
             f       == Head(items)[2]
             answer  == article_search(gd, f)
             log     == Append(acc.log, <<"article_search", keyword>>)
         IN  IF answer.raises
             THEN [acc EXCEPT !.raised = TRUE, !.log = log]
             ELSE IF answer.table = <<>>
                     \/ \E i \in 1..Len(answer.table) : ~MatchesPattern(answer.table[i].seendate)
             THEN ArticleLoopSkipMalformed(gd, Tail(items), [acc EXCEPT !.log = log])
             ELSE ArticleLoopSkipMalformed(gd, Tail(items),
                              [acc EXCEPT !.log = log,
                                          !.value = @ \o NormalizeArticles(answer.table, keyword)])

\* The loop of lines 44-50 over filters.items(), from the accumulator acc =
\* [raised, value, log]; an exception ends the loop and leaves `raised` set.
RECURSIVE ArticleLoop(_, _, _)
ArticleLoop(gd, items, acc) ==
    IF items = <<>> \/ acc.raised THEN acc
    ELSE LET keyword == Head(items)[1]
             f       == Head(items)[2]
             answer  == article_search(gd, f)
             log     == Append(acc.log, <<"article_search", keyword>>)
         IN  IF answer.raises
             THEN [acc EXCEPT !.raised = TRUE, !.log = log]
             ELSE IF answer.table = <<>>
             THEN ArticleLoop(gd, Tail(items), [acc EXCEPT !.log = log])
             ELSE IF \E i \in 1..Len(answer.table) : ~MatchesPattern(answer.table[i].seendate)
             THEN [acc EXCEPT !.raised = TRUE, !.log = log]
             ELSE ArticleLoop(gd, Tail(items),
                              [acc EXCEPT !.log = log,
                                          !.value = @ \o NormalizeArticles(answer.table, keyword)])

generate_artical_data(gd, filters) ==
    ArticleLoop(gd, filters, [raised |-> FALSE, value |-> <<>>, log |-> <<>>])

-----------------------------------------------------------------------------
(* process_timeline_data (main.py:53-76)                                   *)

\* pd.to_datetime on the 'datetime' column: gdeltdoc delivers the column as
\* timestamps already, which pd.to_datetime returns as they are.
to_datetime(x) == x

\* Mutant: line 69 is missing, the table is smoothed in the fetched order.
ProcessTimelineUnsorted(timeline, timeline_type) ==
    [raw |-> timeline, smoothed |-> calculate_moving_average(timeline, timeline_type.col_name)]

\* lines 68-74 for one non-empty fetched table: the sorted table stored in
\* raw_data and its moving average stored in smoothed_data.
ProcessTimeline(timeline, timeline_type) ==
    LET sorted == sort_values([i \in 1..Len(timeline) |->
                                  [timeline[i] EXCEPT !["datetime"] = to_datetime(@)]],
                              "datetime")
    IN  [raw |-> sorted, smoothed |-> calculate_moving_average(sorted, timeline_type.col_name)]

\* the (keyword, timeline type) pairs in the order of the two for loops
LoopPairs(filters, types) ==
    [n \in 1..(Len(filters) * Len(types)) |->
        [keyword       |-> filters[((n - 1) \div Len(types)) + 1][1],
         f             |-> filters[((n - 1) \div Len(types)) + 1][2],
         timeline_type |-> types[((n - 1) % Len(types)) + 1]]]

\* Mutant: line 67 is missing, an empty timeline is stored like any other.
TimelineStepKeepEmpty(gd, pair, acc) ==
    LET api      == pair.timeline_type.search_api
        answer   == timeline_search(gd, api, pair.f)
        timeline == IF answer.raises THEN <<>> ELSE answer.table
        log      == Append(acc.log, <<"timeline_search", api, pair.keyword>>)
        key      == CompositeKey(api, pair.keyword)
    IN  IF ~HasColumn(timeline, "datetime") \/ ~HasColumn(timeline, pair.timeline_type.col_name)
        THEN [acc EXCEPT !.raised = TRUE, !.log = log]
        ELSE LET done == ProcessTimeline(timeline, pair.timeline_type)
             IN  [acc EXCEPT !.log = log,
                             !.raw_data = DictSet(@, key, done.raw),
                             !.smoothed_data = DictSet(@, key, done.smoothed)]

\* One pass of the loop body (lines 59-74) from the accumulator acc =
\* [raised, raw_data, smoothed_data, log].
TimelineStep(gd, pair, acc) ==
    LET api      == pair.timeline_type.search_api
        answer   == timeline_search(gd, api, pair.f)
        \* lines 59-64: an exception of the fetch is caught and the timeline is empty
        timeline == IF answer.raises THEN <<>> ELSE answer.table
        log      == Append(acc.log, <<"timeline_search", api, pair.keyword>>)
        key      == CompositeKey(api, pair.keyword)
    IN  IF timeline = <<>>
        THEN [acc EXCEPT !.log = log]
        \* a KeyError of timeline['datetime'] or of smoothed_data[col_name] is not caught
        ELSE IF ~HasColumn(timeline, "datetime") \/ ~HasColumn(timeline, pair.timeline_type.col_name)
        THEN [acc EXCEPT !.raised = TRUE, !.log = log]
        ELSE LET done == ProcessTimeline(timeline, pair.timeline_type)
             IN  [acc EXCEPT !.log = log,
                             !.raw_data = DictSet(@, key, done.raw),
                             !.smoothed_data = DictSet(@, key, done.smoothed)]

\* Mutant: the except branch returns, so the first fetch that raises ends the loop.
RECURSIVE TimelineLoopStopOnError(_, _, _)
TimelineLoopStopOnError(gd, pairs, acc) ==
    IF pairs = <<>> \/ acc.raised THEN acc
    ELSE IF timeline_search(gd, Head(pairs).timeline_type.search_api, Head(pairs).f).raises
    THEN TimelineStep(gd, Head(pairs), acc)
    ELSE TimelineLoopStopOnError(gd, Tail(pairs), TimelineStep(gd, Head(pairs), acc))

RECURSIVE TimelineLoop(_, _, _)
TimelineLoop(gd, pairs, acc) ==
    IF pairs = <<>> \/ acc.raised THEN acc
    ELSE TimelineLoop(gd, Tail(pairs), TimelineStep(gd, Head(pairs), acc))

process_timeline_data(gd, filters, types) ==
    TimelineLoop(gd, LoopPairs(filters, types),
                 [raised |-> FALSE, raw_data |-> <<>>, smoothed_data |-> <<>>, log |-> <<>>])

-----------------------------------------------------------------------------
(* The Search handler's filter construction (main.py:102-123)              *)

\* Mutant: a text without a comma becomes a one-element list.
DomainsAlwaysList(domain) ==
    IF domain # <<>>
    THEN [type |-> "list",
          value |-> [i \in 1..Len(str_split(domain, ",")) |-> str_strip(str_split(domain, ",")[i])]]
    ELSE [type |-> "list", value |-> <<>>]

\* lines 104-107: a str is returned as [type |-> "str"], a list as [type |-> "list"]
DomainsOf(domain) ==
    IF Len(str_split(domain, ",")) = 1
    THEN (IF domain # <<>>
          THEN [type |-> "str", value |-> str_strip(domain)]
          ELSE [type |-> "list", value |-> <<>>])
    ELSE (IF domain # <<>>
          THEN [type |-> "list",
                value |-> [i \in 1..Len(str_split(domain, ",")) |-> str_strip(str_split(domain, ",")[i])]]
          ELSE [type |-> "list", value |-> <<>>])

\* lines 109-112
CountriesOf(country) ==
    IF Len(str_split(country, ",")) = 1
    THEN (IF country # <<>>
          THEN [type |-> "str", value |-> str_strip(country)]
          ELSE [type |-> "list", value |-> <<>>])
    ELSE (IF country # <<>>
          THEN [type |-> "list",
                value |-> [i \in 1..Len(str_split(country, ",")) |-> str_strip(str_split(country, ",")[i])]]
          ELSE [type |-> "list", value |-> <<>>])

\* lines 114-123: filters[keyword] = f for the three keywords in order; a
\* repeated keyword overwrites its entry and keeps its first position.  The
\* dates, domain, country and theme of f only travel to the service.
RECURSIVE BuildFilters(_, _)
BuildFilters(kws, filters) ==
    IF kws = <<>> THEN filters
    ELSE BuildFilters(Tail(kws), DictSet(filters, Head(kws), [keyword |-> Head(kws)]))

-----------------------------------------------------------------------------
(* The display section (main.py:137-156)                                   *)

Display(view, raw, smoothed, arts) ==
    [error    |-> FALSE,
     charts   |-> [i \in 1..Len(timeline_types) |->
                      generate_timeline_chart(IF view = "Raw Data" THEN raw ELSE smoothed,
                                              timeline_types[i])],
     text     |-> IF arts # <<>> THEN "Articles:" ELSE "No articles found.",
     table    |-> arts]

\* an uncaught exception ends the script run: Streamlit shows the exception
\* and nothing of the display section runs
ErrorScreen == [error |-> TRUE, charts |-> <<>>, text |-> "", table |-> <<>>]

-----------------------------------------------------------------------------
(* The session: inputs                                                     *)

kw_x   == <<"x">>
kw_y   == <<"y">>
kw_z   == <<"z">>
kw_x_y == <<"x", ":", "y">>

\* what the user may type into the three keyword fields
KeywordLists == { <<kw_x, kw_y, kw_z>>, <<kw_x, kw_x_y, kw_x>> }

Views == {"Raw Data", "Smoothed Data"}

Apis == {timeline_types[i].search_api : i \in 1..Len(timeline_types)}
SeqToSet(s) == {s[i] : i \in 1..Len(s)}

\* The answers of the service in one search: every call succeeds with data,
\* except the calls of one fault set, which all fail the same way.  Either
\* the article fetches or the timeline fetches hold the fault set, or the
\* whole service fails uniformly.
ArticleFaults == {"error", "empty", "badrows"}
TimelineFaults == {"error", "empty", "badtable"}

ArticleFaultSets(K) == {{}} \cup {{k} : k \in K} \cup {K}
TimelineFaultSets(K) ==
    {{}} \cup {{p} : p \in Apis \X K}
         \cup {Apis \X {k} : k \in K}
         \cup {Apis \X K}

ArticleAnswers(K, F, o) == [k \in K |-> IF k \in F THEN o ELSE "rows"]
TimelineAnswers(K, F, o) == [p \in Apis \X K |-> IF p \in F THEN o ELSE "data"]

Scenarios(K) ==
    {<<ArticleAnswers(K, F, o), TimelineAnswers(K, {}, "data")>> :
        F \in ArticleFaultSets(K), o \in ArticleFaults}
    \cup
    {<<ArticleAnswers(K, {}, "rows"), TimelineAnswers(K, F, o)>> :
        F \in TimelineFaultSets(K), o \in TimelineFaults}
    \cup
    {<<ArticleAnswers(K, K, oa), TimelineAnswers(K, Apis \X K, ot)>> :
        oa \in {"error", "empty"}, ot \in {"error", "empty"}}

MaxSearches == 2

-----------------------------------------------------------------------------
(* The session: state machine                                              *)

NoAnswers == <<>>

\* The session after the first script run, which runs without the button
\* (lines 139-141 and 150-151 fill the empty store), with kws typed into the
\* keyword fields.
SessionStart(kws) ==
    /\ keywords = kws
    /\ tab = "Raw Data"
    /\ articles = <<>>
    /\ raw_data = <<>>
    /\ smoothed_data = <<>>
    /\ written_by = [articles |-> 0, raw_data |-> 0, smoothed_data |-> 0]
    /\ search_no = 0
    /\ article_results = NoAnswers
    /\ timeline_results = NoAnswers
    /\ fetch_log = <<>>
    /\ screen = Display("Raw Data", <<>>, <<>>, <<>>)

SessionInit == \E kws \in KeywordLists : SessionStart(kws)

MAIdle ==
    /\ ma_timeline = <<>>
    /\ ma_type = timeline_types[1]
    /\ ma_raw = <<>>
    /\ ma_smoothed = <<>>
    /\ ma_pc = "idle"

FilterIdle ==
    /\ field_text = <<>>
    /\ field_name = ""
    /\ field_value = [type |-> "list", value |-> <<>>]

Init == SessionInit /\ MAIdle /\ FilterIdle

\* A script run without the button: the user picked the other view.
SelectTab ==
    /\ \E view \in Views \ {tab} :
        /\ tab' = view
        /\ screen' = Display(view, raw_data, smoothed_data, articles)
    /\ fetch_log' = <<>>
    /\ UNCHANGED <<keywords, articles, raw_data, smoothed_data, written_by, search_no,
                   article_results, timeline_results>>
    /\ UNCHANGED <<maVars, filterVars>>

\* A script run with the Search button pressed (main.py:101-156), against a
\* client gd.
SearchWith(gd) ==
    LET filters == BuildFilters(keywords, <<>>)
    IN  \E all_articles \in {generate_artical_data(gd, filters)} :                  \* line 126
        \E timelines \in {process_timeline_data(gd, filters, timeline_types)} :    \* line 131
        /\ article_results' = gd.articles
        /\ timeline_results' = gd.timelines
        /\ IF all_articles.raised
           THEN /\ UNCHANGED <<articles, raw_data, smoothed_data, written_by>>
                /\ fetch_log' = all_articles.log
                /\ screen' = ErrorScreen
           ELSE /\ articles' = all_articles.value                    \* line 127
                /\ IF timelines.raised
                   THEN /\ UNCHANGED <<raw_data, smoothed_data>>
                        /\ written_by' = [written_by EXCEPT !.articles = search_no + 1]
                        /\ fetch_log' = all_articles.log \o timelines.log
                        /\ screen' = ErrorScreen
                   ELSE /\ raw_data' = timelines.raw_data            \* line 132
                        /\ smoothed_data' = timelines.smoothed_data  \* line 133
                        /\ written_by' = [articles      |-> search_no + 1,
                                          raw_data      |-> search_no + 1,
                                          smoothed_data |-> search_no + 1]
                        /\ fetch_log' = all_articles.log \o timelines.log
                        /\ screen' = Display(tab, timelines.raw_data, timelines.smoothed_data,
                                             all_articles.value)

Search ==
    /\ search_no < MaxSearches
    /\ search_no' = search_no + 1
    /\ \E sc \in Scenarios(SeqToSet(keywords)) :
        SearchWith([articles |-> sc[1], timelines |-> sc[2]])
    /\ UNCHANGED <<keywords, tab>>
    /\ UNCHANGED <<maVars, filterVars>>

Next == Search \/ SelectTab

Spec == Init /\ [][Next]_vars

-----------------------------------------------------------------------------
(* Specification SpecMA: lines 68-74 applied to one fetched timeline       *)

MaxLen == 40
Seeds == {1, 2}
Orders == {"asc", "desc", "rot"}

MAInit ==
    /\ \E n \in 1..MaxLen, seed \in Seeds, order \in Orders, t \in 1..Len(timeline_types) :
        /\ ma_timeline = TimelineTable(timeline_types[t], n, seed, order)
        /\ ma_type = timeline_types[t]
    /\ ma_raw = <<>>
    /\ ma_smoothed = <<>>
    /\ ma_pc = "fetched"

MAProcess ==
    /\ ma_pc = "fetched"
    /\ \E done \in {ProcessTimeline(ma_timeline, ma_type)} :
        /\ ma_raw' = done.raw
        /\ ma_smoothed' = done.smoothed
    /\ ma_pc' = "stored"
    /\ UNCHANGED <<ma_timeline, ma_type>>
    /\ UNCHANGED <<sessionVars, filterVars>>

InitMA == SessionStart(<<kw_x, kw_y, kw_z>>) /\ MAInit /\ FilterIdle
NextMA == MAProcess
SpecMA == InitMA /\ [][NextMA]_vars

-----------------------------------------------------------------------------
(* Specification SpecFilter: lines 104-112 applied to one text field       *)

MaxTextLen == 4
TextTokens == {"bbc.co.uk", "nytimes.com", ",", " "}
Texts == UNION {[1..n -> TextTokens] : n \in 0..MaxTextLen}

FilterInit ==
    /\ field_text \in Texts
    /\ field_name = ""
    /\ field_value = [type |-> "list", value |-> <<>>]

BuildDomains ==
    /\ field_name = ""
    /\ field_name' = "domain"
    /\ field_value' = DomainsOf(field_text)
    /\ UNCHANGED field_text
    /\ UNCHANGED <<sessionVars, maVars>>

BuildCountries ==
    /\ field_name = ""
    /\ field_name' = "country"
    /\ field_value' = CountriesOf(field_text)
    /\ UNCHANGED field_text
    /\ UNCHANGED <<sessionVars, maVars>>

InitFilter == SessionStart(<<kw_x, kw_y, kw_z>>) /\ MAIdle /\ FilterInit
NextFilter == BuildDomains \/ BuildCountries
SpecFilter == InitFilter /\ [][NextFilter]_vars

-----------------------------------------------------------------------------
(* Vocabulary of the properties                                            *)

\* the distinct keywords of the three fields, in order of first occurrence
SubmittedKeywords ==
    LET first == {i \in 1..Len(keywords) : \A j \in 1..(i - 1) : keywords[j] # keywords[i]}
    IN  [n \in 1..Cardinality(first) |->
            keywords[CHOOSE i \in first : Cardinality({j \in first : j < i}) = n - 1]]

KeywordSet == {keywords[i] : i \in 1..Len(keywords)}
AllPairs == Apis \X KeywordSet

\* the last script run was a search
LastRunWasSearch == fetch_log # <<>>

\* in the last search every article fetch returned a table, empty or well formed
ArticleStepPassed ==
    search_no > 0 /\ \A k \in KeywordSet : article_results[k] \in {"rows", "empty"}

\* in the last search every timeline fetch raised, returned nothing or returned
\* a table with its metric column
TimelineTablesWellFormed ==
    search_no > 0 /\ \A p \in AllPairs : timeline_results[p] \in {"error", "empty", "data"}

KeySet(store) == {store[i][1] : i \in 1..Len(store)}
TimesLogged(call) == Cardinality({i \in 1..Len(fetch_log) : fetch_log[i] = call})

\* the table the service delivers for a "data" answer, in chronological order
ChronologicalTable(api, keyword) ==
    [t \in 1..SeriesLen |-> TimelineRow(TypeOf(api), Len(keyword), t)]

-----------------------------------------------------------------------------
\* C1: a timeline fetch that raises never aborts process_timeline_data: when the
\* article step passes and no fetched table is malformed, the search completes,
\* every (keyword, timeline type) pair has been fetched exactly once, and the
\* raw and the smoothed store hold an entry for exactly the pairs whose fetch
\* returned non-empty data.
C1_PartialFailure ==
    (ArticleStepPassed /\ TimelineTablesWellFormed) =>
        /\ written_by.raw_data = search_no /\ written_by.smoothed_data = search_no
        /\ LastRunWasSearch =>
              /\ ~screen.error
              /\ \A p \in AllPairs : TimesLogged(<<"timeline_search", p[1], p[2]>>) = 1
        /\ KeySet(raw_data) = {CompositeKey(p[1], p[2]) : p \in {q \in AllPairs : timeline_results[q] = "data"}}
        /\ KeySet(smoothed_data) = KeySet(raw_data)

\* three keywords, every fetch of the second one raises, the other two succeed
C1_Witness ==
    /\ keywords = <<kw_x, kw_y, kw_z>>
    /\ LastRunWasSearch /\ ArticleStepPassed
    /\ \A a \in Apis : /\ timeline_results[<<a, kw_y>>] = "error"
                       /\ timeline_results[<<a, kw_x>>] = "data"
                       /\ timeline_results[<<a, kw_z>>] = "data"
    /\ Len(raw_data) = 6
    /\ \A a \in Apis : /\ DictHas(raw_data, CompositeKey(a, kw_x))
                       /\ DictHas(raw_data, CompositeKey(a, kw_z))
                       /\ ~DictHas(raw_data, CompositeKey(a, kw_y))

-----------------------------------------------------------------------------
\* C2 (as claimed): whenever the page has been rendered from the session store,
\* the articles, the raw series and the smoothed series in the store were all
\* assigned by the same search.
C2_StoreSwappedAsUnit ==
    ~screen.error =>
        /\ written_by.articles = written_by.raw_data
        /\ written_by.raw_data = written_by.smoothed_data

-----------------------------------------------------------------------------
\* C3 (as claimed): a search in which every fetch raises ends without an error:
\* the three charts are rendered without traces and "No articles found." is shown.
C3_WhollyFailedSearch ==
    ( /\ LastRunWasSearch
      /\ \A k \in KeywordSet : article_results[k] = "error"
      /\ \A p \in AllPairs : timeline_results[p] = "error" ) =>
        /\ ~screen.error
        /\ Len(screen.charts) = Len(timeline_types)
        /\ \A i \in 1..Len(screen.charts) : screen.charts[i].traces = <<>>
        /\ screen.text = "No articles found."

-----------------------------------------------------------------------------
(* Properties of the moving average (specification SpecMA).  Indices are   *)
(* the 0-based indices of the code: index i is position i + 1 here.        *)

MetricOf(table, i) == table[i + 1][ma_type.col_name]

\* the sum of the raw metric values at the indices lo..hi
RawSum(lo, hi) ==
    LET partial[i \in (lo - 1)..hi] ==
            IF i < lo THEN 0 ELSE partial[i - 1] + MetricOf(ma_raw, i)
    IN  partial[hi]

\* C4 (amended): for a sorted series of N >= 30 points the smoothed value is
\* undefined at exactly the indices below 15 and above N - 15 (0-14 and 26-39
\* for N = 40) and is, at every other index i (15-25 for N = 40), the exact mean
\* of the full 30-value window i-15 .. i+14; a partial window is never averaged.
C4_FullWindowsOnly ==
    (ma_pc = "stored" /\ Len(ma_raw) >= 30) =>
        LET N == Len(ma_raw)
        IN  /\ Len(ma_smoothed) = N
            /\ \A i \in 0..(N - 1) :
                  IF i < 15 \/ i > N - 15
                  THEN MetricOf(ma_smoothed, i) = NaN
                  ELSE MetricOf(ma_smoothed, i) = Mean(RawSum(i - 15, i + 14), 30)
            /\ N = 40 =>
                  {i \in 0..(N - 1) : MetricOf(ma_smoothed, i) = NaN} = (0..14) \cup (26..39)

\* a series of 40 points has been smoothed and index 15 holds a mean
C4_Witness ==
    /\ ma_pc = "stored"
    /\ Len(ma_raw) = 40
    /\ MetricOf(ma_smoothed, 15) # NaN
    /\ MetricOf(ma_smoothed, 14) = NaN

\* C4 (as claimed): undefined at exactly the indices within 14 of either end
\* (0-13 and N-14 .. N-1), a value at every other index.
C4_AsClaimed ==
    (ma_pc = "stored" /\ Len(ma_raw) >= 30) =>
        \A i \in 0..(Len(ma_raw) - 1) :
            (MetricOf(ma_smoothed, i) = NaN) <=> (i <= 13 \/ i >= Len(ma_raw) - 14)

\* C5 (amended): wherever the smoothed value is defined at index i, it is the
\* mean of the raw values at the 30 consecutive indices i-15 .. i+14 (15 before
\* i, 14 after) of the chronologically sorted series.
C5_WindowPlacement ==
    ma_pc = "stored" =>
        /\ Len(ma_raw) = Len(ma_timeline)
        /\ \A i \in 1..Len(ma_raw) : ma_raw[i]["datetime"] = i
        /\ {ma_raw[i] : i \in 1..Len(ma_raw)} = {ma_timeline[i] : i \in 1..Len(ma_timeline)}
        /\ \A i \in 0..(Len(ma_smoothed) - 1) :
              MetricOf(ma_smoothed, i) # NaN =>
                  /\ i - 15 >= 0
                  /\ i + 14 <= Len(ma_raw) - 1
                  /\ MetricOf(ma_smoothed, i) = Mean(RawSum(i - 15, i + 14), 30)

\* a series fetched out of order, long enough for two windows whose sums differ
C5_Witness ==
    /\ ma_pc = "stored"
    /\ Len(ma_raw) = 31
    /\ ma_timeline # ma_raw
    /\ MetricOf(ma_smoothed, 15) # NaN
    /\ MetricOf(ma_smoothed, 15) # MetricOf(ma_smoothed, 16)

\* C5 (as claimed): wherever the smoothed value is defined at index i, it is the
\* mean of the raw values at the indices i-14 .. i+15.
C5_AsClaimed ==
    ma_pc = "stored" =>
        \A i \in 0..(Len(ma_smoothed) - 1) :
            MetricOf(ma_smoothed, i) # NaN =>
                /\ i - 14 >= 0
                /\ i + 15 <= Len(ma_raw) - 1
                /\ MetricOf(ma_smoothed, i) = Mean(RawSum(i - 14, i + 15), 30)

-----------------------------------------------------------------------------
(* Properties of the session store (specification Spec), continued         *)

\* C6: in every state the raw and the smoothed store hold the same keys in the
\* same order, each smoothed series has the length, the timestamps and every
\* column but the metric column of its raw counterpart, and the raw series
\* stored by a search is the fetched series in chronological order, its metric
\* values untouched.
C6_SmoothedAlignedWithRaw ==
    /\ DictKeys(smoothed_data) = DictKeys(raw_data)
    /\ \A n \in 1..Len(raw_data) :
          LET raw      == raw_data[n][2]
              smoothed == smoothed_data[n][2]
              col      == TypeOf(str_split(raw_data[n][1], ":")[1]).col_name
          IN  /\ Len(smoothed) = Len(raw)
              /\ \A i \in 1..Len(raw) :
                    /\ smoothed[i]["datetime"] = raw[i]["datetime"]
                    /\ DOMAIN smoothed[i] = DOMAIN raw[i]
                    /\ \A c \in DOMAIN raw[i] \ {col} : smoothed[i][c] = raw[i][c]
    /\ (search_no > 0 /\ written_by.raw_data = search_no) =>
          \A p \in AllPairs :
              DictHas(raw_data, CompositeKey(p[1], p[2])) =>
                  DictGet(raw_data, CompositeKey(p[1], p[2])) = ChronologicalTable(p[1], p[2])

\* a second search was aborted and the store of the first, with all nine
\* series, is still aligned
C6_Witness ==
    /\ search_no = 2
    /\ written_by.raw_data = 1
    /\ Len(raw_data) = 9
    /\ Len(smoothed_data) = 9
    /\ \A n \in 1..Len(smoothed_data) : Len(smoothed_data[n][2]) = SeriesLen

-----------------------------------------------------------------------------
\* C7: a timeline fetch that returns an empty table leaves its pair out of the
\* raw and the smoothed store, ends the search with no error, and leaves the
\* entry of every pair that returned data as it is without the empty one: the
\* fetched series in chronological order.
C7_EmptyResultSkipped ==
    (ArticleStepPassed /\ TimelineTablesWellFormed) =>
        \A p \in AllPairs :
            /\ timeline_results[p] = "empty" =>
                  /\ ~DictHas(raw_data, CompositeKey(p[1], p[2]))
                  /\ ~DictHas(smoothed_data, CompositeKey(p[1], p[2]))
                  /\ written_by.raw_data = search_no
                  /\ LastRunWasSearch => ~screen.error
            /\ timeline_results[p] = "data" =>
                  /\ DictHas(raw_data, CompositeKey(p[1], p[2]))
                  /\ DictHas(smoothed_data, CompositeKey(p[1], p[2]))
                  /\ DictGet(raw_data, CompositeKey(p[1], p[2])) = ChronologicalTable(p[1], p[2])

\* one pair of nine returned an empty table and the other eight are stored
C7_Witness ==
    /\ LastRunWasSearch /\ ArticleStepPassed /\ TimelineTablesWellFormed
    /\ Cardinality(AllPairs) = 9
    /\ Cardinality({p \in AllPairs : timeline_results[p] = "empty"}) = 1
    /\ Cardinality({p \in AllPairs : timeline_results[p] = "data"}) = 8
    /\ Len(raw_data) = 8
    /\ Len(smoothed_data) = 8
    /\ ~screen.error

-----------------------------------------------------------------------------
\* the last search fetched an article table with a malformed seendate
MalformedSeendateFetched ==
    /\ LastRunWasSearch
    /\ \E k \in KeywordSet :
          /\ article_results[k] = "badrows"
          /\ TimesLogged(<<"article_search", k>>) = 1

\* C8: a search that fetches an article row with a malformed seendate ends in an
\* error in the article step: it makes no timeline fetch and leaves the
\* articles, the raw series and the smoothed series of the store as they were
\* before the search.
C8_MalformedSeendateIsFatal ==
    [][ (search_no' = search_no + 1 /\ MalformedSeendateFetched') =>
            /\ screen'.error
            /\ \A i \in 1..Len(fetch_log') : fetch_log'[i][1] # "timeline_search"
            /\ articles' = articles
            /\ raw_data' = raw_data
            /\ smoothed_data' = smoothed_data ]_vars

\* the second search met a malformed seendate at its second keyword, after the
\* first search had filled the store
C8_Witness ==
    /\ search_no = 2
    /\ MalformedSeendateFetched
    /\ Len(fetch_log) = 2
    /\ screen.error
    /\ articles # <<>>
    /\ Len(raw_data) = 9
    /\ written_by = [articles |-> 1, raw_data |-> 1, smoothed_data |-> 1]

-----------------------------------------------------------------------------
\* the submitted keywords that have an entry for timeline type t in the store
KeywordsWithEntry(store, t) ==
    LET api  == timeline_types[t].search_api
        with == {n \in 1..Len(SubmittedKeywords) : DictHas(store, CompositeKey(api, SubmittedKeywords[n]))}
    IN  [m \in 1..Cardinality(with) |->
            SubmittedKeywords[CHOOSE n \in with : Cardinality({j \in with : j < n}) = m - 1]]

\* C10 (as claimed): each rendered chart holds exactly one trace per submitted
\* keyword that has an entry for the chart's timeline type in the displayed
\* store, and each trace is labeled by that keyword in full.
C10_TracePerKeyword ==
    ~screen.error =>
        \A t \in 1..Len(timeline_types) :
            [n \in 1..Len(screen.charts[t].traces) |-> screen.charts[t].traces[n].name]
                = KeywordsWithEntry(IF tab = "Raw Data" THEN raw_data ELSE smoothed_data, t)

-----------------------------------------------------------------------------
(* Properties of the filter fields (specification SpecFilter)              *)

Commas(s) == {i \in 1..Len(s) : s[i] = ","}

\* the k-th maximal comma-free part of s, k in 1 .. number of commas + 1
Part(s, k) ==
    LET before == IF k = 1 THEN 0
                  ELSE CHOOSE p \in Commas(s) : Cardinality({q \in Commas(s) : q < p}) = k - 2
        after  == IF k = Cardinality(Commas(s)) + 1 THEN Len(s) + 1
                  ELSE CHOOSE p \in Commas(s) : Cardinality({q \in Commas(s) : q < p}) = k - 1
    IN  SubSeq(s, before + 1, after - 1)

\* s without its leading and trailing blanks
Trimmed(s) ==
    LET solid == {i \in 1..Len(s) : s[i] # " "}
    IN  IF solid = {} THEN <<>>
        ELSE SubSeq(s, CHOOSE i \in solid : \A j \in solid : i <= j,
                       CHOOSE i \in solid : \A j \in solid : i >= j)

\* C9: the value built from a domain or country field is an empty list for an
\* empty text, the trimmed text as a scalar string for a non-empty text with no
\* comma, and otherwise the list of the comma-separated parts, each trimmed, in
\* order.
C9_ScalarOrList ==
    field_name # "" =>
        /\ field_text = <<>> => field_value = [type |-> "list", value |-> <<>>]
        /\ (field_text # <<>> /\ Commas(field_text) = {}) =>
              field_value = [type |-> "str", value |-> Trimmed(field_text)]
        /\ Commas(field_text) # {} =>
              /\ field_value.type = "list"
              /\ Len(field_value.value) = Cardinality(Commas(field_text)) + 1
              /\ \A k \in 1..Len(field_value.value) :
                    field_value.value[k] = Trimmed(Part(field_text, k))

\* "bbc.co.uk, nytimes.com" became the two-element list of its trimmed parts
C9_Witness ==
    /\ field_name = "domain"
    /\ field_text = <<"bbc.co.uk", ",", " ", "nytimes.com">>
    /\ field_value = [type |-> "list", value |-> << <<"bbc.co.uk">>, <<"nytimes.com">> >>]

====
